---- MODULE Spec2Model ----
(***************************************************************************)
(* Model of the vapours pixel-value conversion core:                       *)
(*   - generic.rs  HoldsVideoFormat::{lowest,neutral,peak}_value           *)
(*   - scale.rs    scale_value                                             *)
(* The integer sub-expressions are i32 (wrapping in release builds,        *)
(* panicking on overflow in debug builds); every other number is an f32,   *)
(* modelled bit-exactly as a 24-bit significand and an exponent with       *)
(* round-to-nearest-even.                                                  *)
(***************************************************************************)
EXTENDS Integers, Sequences, FiniteSets, TLC

(***************************************************************************)
(* i32 arithmetic                                                          *)
(***************************************************************************)
MaxI32 == 2147483647
MinI32 == (-MaxI32) - 1

\* An integer result or a panic (overflow check of a debug build).
IntOk(v) == [ok |-> TRUE, v |-> v]
IntPanic == [ok |-> FALSE, v |-> 0]

\* The number of `bits` bits read as two's complement: half is 2^(bits - 1).
SignedBits(low, half) == IF low >= half THEN (low - half) - half ELSE low

\* The low 32 bits of v * 2^s as an i32, for 0 <= s <= 31: the low 32 - s
\* bits of v, read as a signed number, times 2^s.
WrappingShl(v, s) ==
  IF s = 0 THEN v
  ELSE (SignedBits(IF s = 1
                     THEN IF v < 0 THEN (v + 1073741824) + 1073741824 ELSE v
                     ELSE v % 2^(32 - s),
                   2^(31 - s)) * 2^(s - 1)) * 2

\* Rust `x << s` on i32 with an i32 shift amount: a shift amount outside
\* 0..31 panics when overflow checks are on (debug) and is masked to its low
\* five bits when they are off (release); bits shifted out are dropped.
Shl(build, x, s) ==
  IF s < 0 \/ s >= 32
    THEN IF build = "debug" THEN IntPanic ELSE IntOk(WrappingShl(x, s % 32))
    ELSE IntOk(WrappingShl(x, s))

\* Rust `x - 1` on i32: panics on overflow in debug, wraps in release.
SubOne(build, x) ==
  IF ~x.ok THEN IntPanic
  ELSE IF x.v = MinI32
    THEN IF build = "debug" THEN IntPanic ELSE IntOk(MaxI32)
    ELSE IntOk(x.v - 1)

(***************************************************************************)
(* f32 values.  A finite f32 is m * 2^e with m = 0 /\ e = 0, or            *)
(* 2^23 <= |m| < 2^24.  Every finite value the modelled code can produce   *)
(* has a magnitude between 2^-60 and 2^70, far inside the normal range of  *)
(* f32, so the exponent is left unbounded.  +0.0 and -0.0 are one value:   *)
(* they compare equal in Rust and the only divisor that can be zero is a   *)
(* difference x - x, which is +0.0.                                        *)
(***************************************************************************)
Num(m, e) == [k |-> "num", m |-> m, e |-> e]
Zero == Num(0, 0)
Inf(s) == [k |-> "inf", m |-> s, e |-> 0]
NaN == [k |-> "nan", m |-> 0, e |-> 0]
\* The call did not return: it panicked.
Panic == [k |-> "panic", m |-> 0, e |-> 0]

Abs(n) == IF n < 0 THEN -n ELSE n
Sign(n) == IF n < 0 THEN -1 ELSE IF n > 0 THEN 1 ELSE 0

\* Number of significant bits of 0 <= a < 256, and of 0 <= a < 2^31.
BitLen8(a) ==
  IF a < 16
    THEN IF a < 4 THEN (IF a < 2 THEN a ELSE 2) ELSE (IF a < 8 THEN 3 ELSE 4)
    ELSE IF a < 64 THEN (IF a < 32 THEN 5 ELSE 6) ELSE (IF a < 128 THEN 7 ELSE 8)

BitLen(a) ==
  IF a < 65536
    THEN IF a < 256 THEN BitLen8(a) ELSE 8 + BitLen8(a \div 256)
    ELSE IF a < 16777216 THEN 16 + BitLen8(a \div 65536)
         ELSE 24 + BitLen8(a \div 16777216)

\* sgn * q * 2^e with q <= 2^24 made a 24-bit significand.
RoundCarry(sgn, q, e) ==
  IF q = 16777216 THEN Num(sgn * 8388608, e + 1) ELSE Num(sgn * q, e)

\* sgn * (q + r / (2 * half)) * 2^e rounded to a multiple of 2^e, ties to even.
RoundNearestEven(sgn, q, r, half, e) ==
  RoundCarry(sgn, IF r > half \/ (r = half /\ q % 2 = 1) THEN q + 1 ELSE q, e)

\* The f32 nearest to sgn * a * 2^e for a magnitude a > 0 of n bits.
RoundBits(sgn, a, n, e) ==
  IF n <= 24
    THEN Num(sgn * a * 2^(24 - n), e - (24 - n))
    ELSE RoundNearestEven(sgn, a \div 2^(n - 24), a % 2^(n - 24), 2^(n - 25),
                          e + (n - 24))

\* The f32 nearest to m * 2^e (ties to even), for any integer |m| < 2^31.
RoundToF32(m, e) ==
  IF m = 0 THEN Zero ELSE RoundBits(Sign(m), Abs(m), BitLen(Abs(m)), e)

\* Round-to-odd: keep the truncated magnitude q, make it odd when bits were lost.
Jam(q, inexact) == IF inexact /\ q % 2 = 0 THEN q + 1 ELSE q

\* i32 -> f32 (ToPrimitive::to_f32 / `as f32`).
I32ToF32(i) ==
  IF ~i.ok THEN Panic
  ELSE IF i.v = MinI32 THEN Num(-8388608, 8)
  ELSE RoundToF32(i.v, 0)

\* hi + lo for nonzero finite f32s whose exponents differ by d >= 0: the
\* smaller operand is aligned with three extra bits, the last one sticky,
\* which rounds as the exact sum does.
AddAligned(hi, lo, d) ==
  RoundToF32(hi.m * 8
               + Sign(lo.m) * Jam(IF d > 27 THEN 0 ELSE (Abs(lo.m) * 8) \div 2^d,
                                  IF d > 27 THEN TRUE
                                            ELSE (Abs(lo.m) * 8) % 2^d # 0),
             hi.e - 3)

AddOrdered(hi, lo) == AddAligned(hi, lo, hi.e - lo.e)

\* x + y on finite f32s.
AddNum(x, y) ==
  IF x.m = 0 THEN y
  ELSE IF y.m = 0 THEN x
  ELSE AddOrdered(IF x.e >= y.e THEN x ELSE y, IF x.e >= y.e THEN y ELSE x)

F32Neg(x) ==
  IF x.k = "num" THEN Num(-x.m, x.e)
  ELSE IF x.k = "inf" THEN Inf(-x.m)
  ELSE x

F32Add(x, y) ==
  IF x.k = "panic" \/ y.k = "panic" THEN Panic
  ELSE IF x.k = "nan" \/ y.k = "nan" THEN NaN
  ELSE IF x.k = "inf" /\ y.k = "inf" THEN IF x.m = y.m THEN x ELSE NaN
  ELSE IF x.k = "inf" THEN x
  ELSE IF y.k = "inf" THEN y
  ELSE AddNum(x, y)

F32Sub(x, y) == F32Add(x, F32Neg(y))

\* The 48-bit product hi * 2^24 + lo cut to its top bits, round-to-odd.
MulJam(hi, lo) == Jam(hi * 8 + lo \div 2097152, lo % 2097152 # 0)

MulLow(hh, mid, low) ==
  MulJam(hh + mid \div 4096 + low \div 16777216, low % 16777216)

\* hh * 2^24 + mid * 2^12 + ll.
MulMid(hh, mid, ll) == MulLow(hh, mid, (mid % 4096) * 4096 + ll)

\* a * b for 24-bit magnitudes, from their 12-bit halves.
MulMagnitude(a, b) ==
  MulMid((a \div 4096) * (b \div 4096),
         (a \div 4096) * (b % 4096) + (a % 4096) * (b \div 4096),
         (a % 4096) * (b % 4096))

\* x * y on finite f32s.
MulNum(x, y) ==
  IF x.m = 0 \/ y.m = 0 THEN Zero
  ELSE RoundToF32(Sign(x.m) * Sign(y.m) * MulMagnitude(Abs(x.m), Abs(y.m)),
                  x.e + y.e + 21)

F32Mul(x, y) ==
  IF x.k = "panic" \/ y.k = "panic" THEN Panic
  ELSE IF x.k = "nan" \/ y.k = "nan" THEN NaN
  ELSE IF x.k = "inf" \/ y.k = "inf"
    THEN IF x.m = 0 \/ y.m = 0 THEN NaN ELSE Inf(Sign(x.m) * Sign(y.m))
  ELSE MulNum(x, y)

\* 7 * n more quotient bits of r / b by long division in base 128:
\* <<quotient, remainder>>.
RECURSIVE DivBits(_, _, _, _)
DivBits(q, r, b, n) ==
  IF n = 0 THEN <<q, r>>
  ELSE DivBits(q * 128 + (r * 128) \div b, (r * 128) % b, b, n - 1)

\* The quotient of <<quotient, remainder>>, round-to-odd.
DivJam(qr) == Jam(qr[1], qr[2] # 0)

\* a / b for 24-bit magnitudes: 28 fractional quotient bits and a sticky bit.
DivMagnitude(a, b) == DivJam(DivBits(a \div b, a % b, b, 4))

\* x / y on finite f32s, y # 0.
DivNum(x, y) ==
  IF x.m = 0 THEN Zero
  ELSE RoundToF32(Sign(x.m) * Sign(y.m) * DivMagnitude(Abs(x.m), Abs(y.m)),
                  x.e - y.e - 28)

F32Div(x, y) ==
  IF x.k = "panic" \/ y.k = "panic" THEN Panic
  ELSE IF x.k = "nan" \/ y.k = "nan" THEN NaN
  ELSE IF x.k = "inf" THEN IF y.k = "inf" THEN NaN
                           ELSE Inf(x.m * (IF y.m < 0 THEN -1 ELSE 1))
  ELSE IF y.k = "inf" THEN Zero
  ELSE IF y.m = 0 THEN IF x.m = 0 THEN NaN ELSE Inf(Sign(x.m))
  ELSE DivNum(x, y)

\* x < y (false when either is NaN).
F32Lt(x, y) ==
  IF x.k = "nan" \/ y.k = "nan" THEN FALSE
  ELSE IF x.k = "inf" THEN x.m < 0 /\ ~(y.k = "inf" /\ y.m < 0)
  ELSE IF y.k = "inf" THEN y.m > 0
  ELSE AddNum(x, Num(-y.m, y.e)).m < 0

F32Le(x, y) ==
  IF x.k = "nan" \/ y.k = "nan" THEN FALSE ELSE ~F32Lt(y, x)

\* f32::trunc in place of f32::round: the fraction is dropped.
F32Trunc(x) ==
  IF x.k # "num" \/ x.e >= 0 THEN x
  ELSE IF x.e <= -24 THEN Zero
  ELSE RoundToF32(Sign(x.m) * (Abs(x.m) \div 2^(-x.e)), 0)

\* sgn * a / p for a power of two p >= 2, to the nearest integer, halves
\* away from zero.
RoundHalfAway(sgn, a, p) ==
  RoundToF32(sgn * (IF a % p >= p \div 2 THEN a \div p + 1 ELSE a \div p), 0)

\* f32::round: to the nearest integer, halves away from zero.
F32Round(x) ==
  IF x.k # "num" \/ x.e >= 0 THEN x
  ELSE IF x.e <= -25 THEN Zero
  ELSE RoundHalfAway(Sign(x.m), Abs(x.m), 2^(-x.e))

\* f32::clamp: panics unless min <= max; NaN stays NaN.
F32Clamp(x, min, max) ==
  IF x.k = "panic" \/ min.k = "panic" \/ max.k = "panic" THEN Panic
  ELSE IF ~F32Le(min, max) THEN Panic
  ELSE IF F32Lt(x, min) THEN min
  ELSE IF F32Lt(max, x) THEN max
  ELSE x

(***************************************************************************)
(* Formats (vs_enums.rs) and the Option arguments                          *)
(***************************************************************************)
RECURSIVE bytes_per_sample(_, _)
bytes_per_sample(bytes, bits_per_sample) ==
  IF bytes * 8 < bits_per_sample
    THEN bytes_per_sample(bytes * 2, bits_per_sample)
    ELSE bytes

make_video_format(color_family, sample_type, bits_per_sample, sub_sampling_w, sub_sampling_h) ==
  [color_family |-> color_family,
   sample_type |-> sample_type,
   bits_per_sample |-> bits_per_sample,
   bytes_per_sample |-> bytes_per_sample(1, bits_per_sample),
   sub_sampling_w |-> sub_sampling_w,
   sub_sampling_h |-> sub_sampling_h,
   num_planes |-> IF color_family = "Gray" THEN 1 ELSE 3]

\* The seq!(N in 8..=32) ranges of the preset catalogue.
MinPresetDepth == 8
MaxPresetDepth == 32
PresetDepths == MinPresetDepth..MaxPresetDepth

GRAY(N) == make_video_format("Gray", "Integer", N, 0, 0)
GRAYH == make_video_format("Gray", "Float", 16, 0, 0)
GRAYS == make_video_format("Gray", "Float", 32, 0, 0)
YUV420P(N) == make_video_format("YUV", "Integer", N, 1, 1)
YUV420PH == make_video_format("YUV", "Float", 16, 1, 1)
YUV420PS == make_video_format("YUV", "Float", 32, 1, 1)
YUV444P(N) == make_video_format("YUV", "Integer", N, 0, 0)
YUV444PH == make_video_format("YUV", "Float", 16, 0, 0)
YUV444PS == make_video_format("YUV", "Float", 32, 0, 0)
RGB24 == make_video_format("RGB", "Integer", 8, 0, 0)
RGBH == make_video_format("RGB", "Float", 16, 0, 0)
RGBS == make_video_format("RGB", "Float", 32, 0, 0)

Presets ==
  {GRAY(N) : N \in PresetDepths} \cup {GRAYH, GRAYS}
  \cup {YUV420P(N) : N \in PresetDepths} \cup {YUV420PH, YUV420PS}
  \cup {YUV444P(N) : N \in PresetDepths} \cup {YUV444PH, YUV444PS}
  \cup {RGB24, RGBH, RGBS}

ColorFamily == {"Undefined", "Gray", "RGB", "YUV"}
ColorRange == {"Limited", "Full"}
\* Option<ColorRange> and Option<bool>.
OptRange == {"None"} \cup ColorRange
OptBool == {"None", "true", "false"}
SomeBool(b) == IF b THEN "true" ELSE "false"
UnwrapOrBool(o, default) == IF o = "None" THEN default ELSE o = "true"
UnwrapOrRange(o, default) == IF o = "None" THEN default ELSE o

(***************************************************************************)
(* generic.rs: HoldsVideoFormat                                            *)
(***************************************************************************)
color_family(self) == self.color_family
depth(self) == self.bits_per_sample
sample_type(self) == self.sample_type

\* lowest_value with the default range Limited for every colour family.
lowest_value_limited_default(build, self, chroma, range_in) ==
  LET is_rgb == color_family(self) = "RGB"
      chroma1 == IF is_rgb THEN FALSE ELSE UnwrapOrBool(chroma, FALSE)
      range_in1 == UnwrapOrRange(range_in, "Limited")
  IN IF sample_type(self) = "Float"
       THEN IF chroma1 THEN Num(-8388608, -24) ELSE Zero
     ELSE IF range_in1 = "Limited"
       THEN I32ToF32(Shl(build, 16, depth(self) - 8))
     ELSE Zero

lowest_value(build, self, chroma, range_in) ==
  LET is_rgb == color_family(self) = "RGB"
      chroma1 == IF is_rgb THEN FALSE ELSE UnwrapOrBool(chroma, FALSE)
      range_in1 == UnwrapOrRange(range_in, IF is_rgb THEN "Full" ELSE "Limited")
  IN IF sample_type(self) = "Float"
       THEN IF chroma1 THEN Num(-8388608, -24) ELSE Zero
     ELSE IF range_in1 = "Limited"
       THEN I32ToF32(Shl(build, 16, depth(self) - 8))
     ELSE Zero

neutral_value(build, self) ==
  IF sample_type(self) = "Float" THEN Zero
  ELSE I32ToF32(Shl(build, 1, depth(self) - 1))

peak_value(build, self, chroma, range_in) ==
  LET is_rgb == color_family(self) = "RGB"
      chroma1 == IF is_rgb THEN FALSE ELSE UnwrapOrBool(chroma, FALSE)
      range_in1 == UnwrapOrRange(range_in, IF is_rgb THEN "Full" ELSE "Limited")
  IN IF sample_type(self) = "Float"
       THEN IF chroma1 THEN Num(8388608, -24) ELSE Num(8388608, -23)
     ELSE IF range_in1 = "Limited"
       THEN I32ToF32(Shl(build, IF chroma1 THEN 240 ELSE 235, depth(self) - 8))
     ELSE I32ToF32(SubOne(build, Shl(build, 1, depth(self))))

(***************************************************************************)
(* scale.rs: scale_value                                                   *)
(***************************************************************************)
\* value.to_f32(): an integer or float argument m * 2^e rounded to f32; an
\* f32 argument (also an infinity or a NaN) is passed through.
to_f32(value) ==
  IF value.k = "num" THEN RoundToF32(value.m, value.e) ELSE value

\* effective_chroma that looks at the source format only.
effective_chroma_input_only(format_in, format_out, chroma) ==
  IF color_family(format_in) = "RGB" THEN FALSE ELSE UnwrapOrBool(chroma, FALSE)

\* The chroma flag scale_value works with: off when either format is RGB.
effective_chroma(format_in, format_out, chroma) ==
  IF color_family(format_in) = "RGB" \/ color_family(format_out) = "RGB"
    THEN FALSE
    ELSE UnwrapOrBool(chroma, FALSE)

\* The range an omitted range argument stands for.
default_range(format) ==
  IF color_family(format) = "RGB" THEN "Full" ELSE "Limited"

\* The early return: nothing to convert.
is_identity(format_in, format_out, range_in, range_out) ==
  /\ depth(format_in) = depth(format_out)
  /\ UnwrapOrRange(range_in, default_range(format_in))
       = UnwrapOrRange(range_out, default_range(format_out))
  /\ sample_type(format_in) = sample_type(format_out)

\* scale.rs:64-70: an Integer source is brought to its zero level.
subtract_input_offset(build, out_value, format_in, range_in, scale_offsets, chroma) ==
  IF scale_offsets /\ sample_type(format_in) = "Integer"
    THEN IF chroma
           THEN F32Sub(out_value,
                       I32ToF32(Shl(build, 128, depth(format_in) - 8)))
         ELSE IF range_in = "Limited"
           THEN F32Sub(out_value,
                       I32ToF32(Shl(build, 16, depth(format_in) - 8)))
         ELSE out_value
    ELSE out_value

\* scale.rs:72: the span ratio.
rescale(out_value, input_peak, input_lowest, output_peak, output_lowest) ==
  F32Mul(out_value, F32Div(F32Sub(output_peak, output_lowest),
                           F32Sub(input_peak, input_lowest)))

\* scale.rs:74-80: an Integer destination gets its zero level back.
add_output_offset(build, out_value, format_out, range_out, scale_offsets, chroma) ==
  IF scale_offsets /\ sample_type(format_out) = "Integer"
    THEN IF chroma
           THEN F32Add(out_value,
                       I32ToF32(Shl(build, 128, depth(format_out) - 8)))
         ELSE IF range_out = "Limited"
           THEN F32Add(out_value,
                       I32ToF32(Shl(build, 16, depth(format_out) - 8)))
         ELSE out_value
    ELSE out_value

\* scale.rs:82-86.
round_and_clamp(build, out_value, format_out) ==
  IF sample_type(format_out) = "Integer"
    THEN F32Clamp(F32Round(out_value), Zero,
                  peak_value(build, format_out, "None", "Full"))
    ELSE out_value

\* scale.rs:64-88, once the four characteristic values are there: a panic of
\* peak_value or lowest_value is a panic of the call.
scale_between(build, out_value, format_in, format_out, range_in, range_out, scale_offsets, chroma, input_peak, input_lowest, output_peak, output_lowest) ==
  IF input_peak.k = "panic" \/ input_lowest.k = "panic"
     \/ output_peak.k = "panic" \/ output_lowest.k = "panic"
    THEN Panic
    ELSE round_and_clamp(build,
           add_output_offset(build,
             rescale(subtract_input_offset(build, out_value, format_in,
                                           range_in, scale_offsets, chroma),
                     input_peak, input_lowest, output_peak, output_lowest),
             format_out, range_out, scale_offsets, chroma),
           format_out)

\* scale.rs:59-88, with the arguments resolved: range_in and range_out are
\* ranges, scale_offsets and chroma are booleans.
scale_resolved(build, out_value, format_in, format_out, range_in, range_out, scale_offsets, chroma) ==
  scale_between(build, out_value, format_in, format_out, range_in, range_out,
                scale_offsets, chroma,
                peak_value(build, format_in, SomeBool(chroma), range_in),
                lowest_value(build, format_in, SomeBool(chroma), range_in),
                peak_value(build, format_out, SomeBool(chroma), range_out),
                lowest_value(build, format_out, SomeBool(chroma), range_out))

scale_value(build, value, format_in, format_out, range_in, range_out, scale_offsets, chroma) ==
  IF is_identity(format_in, format_out, range_in, range_out)
    THEN to_f32(value)
    ELSE scale_resolved(build, to_f32(value), format_in, format_out,
                        UnwrapOrRange(range_in, default_range(format_in)),
                        UnwrapOrRange(range_out, default_range(format_out)),
                        UnwrapOrBool(scale_offsets, TRUE),
                        effective_chroma(format_in, format_out, chroma))

(***************************************************************************)
(* The callers: one call of one function at a time, on a debug or a        *)
(* release build                                                           *)
(***************************************************************************)
\* Smallest bit depth of a descriptor (spec: bits-per-sample >= 1).
MinDepth == 1
\* Grid points per bit depth among the sampled input values.
GridPoints == 3

Builds == {"debug", "release"}

\* Formats of frames and nodes supplied by the host, besides the presets.
HostFormats ==
  {make_video_format(cf, "Integer", N, 0, 0) :
     cf \in ColorFamily, N \in MinDepth..MaxPresetDepth}
  \cup {make_video_format(cf, "Float", N, 0, 0) : cf \in ColorFamily, N \in {16, 32}}

Formats == Presets \cup HostFormats

\* Bit depths of the deep Integer formats scale_value is called with: the
\* last two depths whose values an f32 holds exactly (23, 24), the first where
\* it does not (25), and the two deepest presets.
ScaleDepths == {23, 24, 25, 31, 32}

\* The formats scale_value is called with: those of its tests (GRAY8, GRAY10,
\* YUV444PS, RGB24, RGBS), a half-precision and a 32-bit RGB format, and the
\* deep presets.
ScaleFormats ==
  {GRAY(8), GRAY(10), GRAYH, YUV444PS, RGB24, RGBS}
  \cup {make_video_format("RGB", "Integer", MaxPresetDepth, 0, 0)}
  \cup {YUV444P(N) : N \in ScaleDepths}

\* 2^d - 1 for d <= 31.
MaxSample(d) == (2^(d - 1) - 1) + 2^(d - 1)

\* Sampled sample values of an Integer format of d <= 31 bits: the ends, the
\* characteristic levels and an even grid.
IntSamples(d) ==
  {0, 1, MaxSample(d)}
  \cup {16 * 2^(d - 8), 128 * 2^(d - 8) + 1, 235 * 2^(d - 8), 240 * 2^(d - 8)}
  \cup {g * (MaxSample(d) \div GridPoints) : g \in 1..(GridPoints - 1)}

\* Arguments of scale_value for a source format, as exact numbers m * 2^e
\* (0.1f32 is 13421773 * 2^-27; the largest 32-bit sample here is 2^32 - 2).
Values(f) ==
  IF f.sample_type = "Float"
    THEN {Zero, Num(13421773, -27), Num(1, -1), Num(1, 0), Num(-1, -1)}
  ELSE IF f.bits_per_sample = 32
    THEN {Num(v, 0) : v \in IntSamples(31)} \cup {Num(MaxSample(31), 1)}
  ELSE {Num(v, 0) : v \in IntSamples(f.bits_per_sample)}

(***************************************************************************)
(* utils.rs: Core::depth                                                   *)
(***************************************************************************)
FMTCONV_NAMESPACE == "fmtc"

\* Result<VideoNode, VapoursError>.
Ok == [k |-> "Ok"]
DependencyNotFoundError(name) ==
  [k |-> "Err", error |-> "DependencyNotFoundError", name |-> name]
FramePropertyError(name) ==
  [k |-> "Err", error |-> "FramePropertyError", name |-> name]

\* The host of a call: whether get_plugin_by_id finds fmtc, whether the two
\* args.set calls succeed, and whether the invoked plugin hands back a node.
Hosts ==
  [fmtc_found : BOOLEAN, set_clip : BOOLEAN, set_bitdepth : BOOLEAN,
   get_video_node : BOOLEAN]
NoCore ==
  [fmtc_found |-> FALSE, set_clip |-> FALSE, set_bitdepth |-> FALSE,
   get_video_node |-> FALSE]

\* utils.rs:80-100: the statements after the todo!().
depth_after_todo(host) ==
  IF ~host.fmtc_found THEN DependencyNotFoundError(FMTCONV_NAMESPACE)
  ELSE IF ~host.set_clip THEN FramePropertyError("clip")
  ELSE IF ~host.set_bitdepth THEN FramePropertyError("clip")
  ELSE IF ~host.get_video_node THEN FramePropertyError("clip")
  ELSE Ok

\* todo!(..): panics; the statements after it are never reached.
todo(unreachable) == Panic

\* impl VapoursCore for Core: depth(clip, bit_depth).
Core_depth(host) == todo(depth_after_todo(host))

(***************************************************************************)
(* frame.rs: PlanesIter and PlanesIterMut.  The two have the same fields   *)
(* and the same next / next_back / len; `returns` records what the calls   *)
(* so far handed out: Some(i) for a view of plane i, None for None.         *)
(***************************************************************************)
Some(plane) == [k |-> "Some", plane |-> plane]
None == [k |-> "None"]

\* Largest number of planes of a frame (make_video_format: 1 or 3).
MaxPlanes == 3
\* Calls followed after the iterator is exhausted.
MaxNones == 2

IterKinds == {"PlanesIter", "PlanesIterMut"}

\* No planes iterator is in use.
NoPlanes == [kind |-> "none"]

\* PlanesIter::new / PlanesIterMut::new: range is 0..num_planes.
new_planes_iter(kind, num_planes) ==
  [kind |-> kind, num_planes |-> num_planes, start |-> 0, end |-> num_planes,
   returns |-> <<>>]

\* next_back with the emptiness test off by one: start <= end in place of
\* start < end.
next_back_inclusive(it) ==
  IF it.start > it.end
    THEN [it EXCEPT !.returns = Append(@, None)]
    ELSE [it EXCEPT !.end = it.end - 1, !.returns = Append(@, Some(it.end - 1))]

\* Iterator::next.
planes_next(it) ==
  IF it.start < it.end
    THEN [it EXCEPT !.start = it.start + 1, !.returns = Append(@, Some(it.start))]
    ELSE [it EXCEPT !.returns = Append(@, None)]

\* DoubleEndedIterator::next_back; range.is_empty() is ~(start < end).
planes_next_back(it) ==
  IF ~(it.start < it.end)
    THEN [it EXCEPT !.returns = Append(@, None)]
    ELSE [it EXCEPT !.end = it.end - 1, !.returns = Append(@, Some(it.end - 1))]

\* ExactSizeIterator::len.
planes_len(it) == it.end - it.start

VARIABLES
  build,          \* "debug" (overflow checks on) or "release"
  pc,             \* "idle", "returned" (a call returned or panicked), "back",
                  \* "iterating" (a planes iterator is in use)
  op,             \* the function called
  format_in,      \* self / format_in
  format_out,
  value,
  range_in,
  range_out,
  scale_offsets,
  chroma,
  result,         \* the call's return value, or Panic
  back,           \* the return value of the reverse scale_value call
  core,           \* the host a Core::depth call runs on
  planes          \* the planes iterator in use

vars == <<build, pc, op, format_in, format_out, value, range_in, range_out,
          scale_offsets, chroma, result, back, core, planes>>

Init ==
  /\ build \in Builds
  /\ pc = "idle"
  /\ op = "none"
  /\ format_in = GRAY(8)
  /\ format_out = GRAY(8)
  /\ value = Zero
  /\ range_in = "None"
  /\ range_out = "None"
  /\ scale_offsets = "None"
  /\ chroma = "None"
  /\ result = Zero
  /\ back = Zero
  /\ core = NoCore
  /\ planes = NoPlanes

\* The arguments a call does not take stay at their idle values.
CallLowestValue ==
  /\ pc = "idle"
  /\ \E f \in Formats, c \in OptBool, r \in OptRange :
       /\ format_in' = f
       /\ chroma' = c
       /\ range_in' = r
       /\ result' = lowest_value(build, f, c, r)
  /\ pc' = "returned"
  /\ op' = "lowest_value"
  /\ UNCHANGED <<build, format_out, value, range_out, scale_offsets, back,
                 core, planes>>

CallPeakValue ==
  /\ pc = "idle"
  /\ \E f \in Formats, c \in OptBool, r \in OptRange :
       /\ format_in' = f
       /\ chroma' = c
       /\ range_in' = r
       /\ result' = peak_value(build, f, c, r)
  /\ pc' = "returned"
  /\ op' = "peak_value"
  /\ UNCHANGED <<build, format_out, value, range_out, scale_offsets, back,
                 core, planes>>

CallNeutralValue ==
  /\ pc = "idle"
  /\ \E f \in Formats :
       /\ format_in' = f
       /\ result' = neutral_value(build, f)
  /\ pc' = "returned"
  /\ op' = "neutral_value"
  /\ UNCHANGED <<build, format_out, value, range_in, range_out, scale_offsets,
                 chroma, back, core, planes>>

CallScaleValue ==
  /\ pc = "idle"
  /\ \E fi \in ScaleFormats, fo \in ScaleFormats, ri \in OptRange,
        ro \in OptRange, so \in OptBool, c \in OptBool :
       \E v \in Values(fi) :
         /\ format_in' = fi
         /\ format_out' = fo
         /\ value' = v
         /\ range_in' = ri
         /\ range_out' = ro
         /\ scale_offsets' = so
         /\ chroma' = c
         /\ result' = scale_value(build, v, fi, fo, ri, ro, so, c)
  /\ pc' = "returned"
  /\ op' = "scale_value"
  /\ UNCHANGED <<build, back, core, planes>>

\* The caller converts the result back to the source format, as in the
\* paired tests test_scale_value_to_10bit / test_scale_value_from_10bit.
CallScaleValueBack ==
  /\ pc = "returned"
  /\ op = "scale_value"
  /\ result.k # "panic"
  /\ format_in.sample_type = "Integer"
  /\ format_out.sample_type = "Integer"
  /\ depth(format_in) < depth(format_out)
  /\ back' = scale_value(build, result, format_out, format_in, range_out,
                         range_in, scale_offsets, chroma)
  /\ pc' = "back"
  /\ UNCHANGED <<build, op, format_in, format_out, value, range_in, range_out,
                 scale_offsets, chroma, result, core, planes>>

CallCoreDepth ==
  /\ pc = "idle"
  /\ \E host \in Hosts :
       /\ core' = host
       /\ result' = Core_depth(host)
  /\ pc' = "returned"
  /\ op' = "Core::depth"
  /\ UNCHANGED <<build, format_in, format_out, value, range_in, range_out,
                 scale_offsets, chroma, back, planes>>

\* frame.planes_iter() / frame.planes_iter_mut() on a frame of n planes.
NewPlanesIter ==
  /\ pc = "idle"
  /\ \E kind \in IterKinds, n \in 1..MaxPlanes :
       /\ planes' = new_planes_iter(kind, n)
       /\ op' = kind
  /\ pc' = "iterating"
  /\ UNCHANGED <<build, format_in, format_out, value, range_in, range_out,
                 scale_offsets, chroma, result, back, core>>

\* The number of None the iterator returned so far.
Nones(it) == Len(SelectSeq(it.returns, LAMBDA r : r = None))

IterNext ==
  /\ pc = "iterating"
  /\ Nones(planes) < MaxNones
  /\ planes' = planes_next(planes)
  /\ UNCHANGED <<build, pc, op, format_in, format_out, value, range_in,
                 range_out, scale_offsets, chroma, result, back, core>>

IterNextBack ==
  /\ pc = "iterating"
  /\ Nones(planes) < MaxNones
  /\ planes' = planes_next_back(planes)
  /\ UNCHANGED <<build, pc, op, format_in, format_out, value, range_in,
                 range_out, scale_offsets, chroma, result, back, core>>

\* The caller is ready for its next call; an iterator in use is dropped.
Return ==
  /\ pc \in {"returned", "back", "iterating"}
  /\ pc' = "idle"
  /\ op' = "none"
  /\ format_in' = GRAY(8)
  /\ format_out' = GRAY(8)
  /\ value' = Zero
  /\ range_in' = "None"
  /\ range_out' = "None"
  /\ scale_offsets' = "None"
  /\ chroma' = "None"
  /\ result' = Zero
  /\ back' = Zero
  /\ core' = NoCore
  /\ planes' = NoPlanes
  /\ UNCHANGED build

Next ==
  \/ CallLowestValue
  \/ CallPeakValue
  \/ CallNeutralValue
  \/ CallScaleValue
  \/ CallScaleValueBack
  \/ CallCoreDepth
  \/ NewPlanesIter
  \/ IterNext
  \/ IterNextBack
  \/ Return

Spec == Init /\ [][Next]_vars

(***************************************************************************)
(* Properties                                                              *)
(***************************************************************************)
\* m * 2^e with the factors of two moved out of m.
RECURSIVE Reduced(_, _)
Reduced(m, e) ==
  IF m = 0 THEN <<0, 0>>
  ELSE IF m % 2 = 0 THEN Reduced(m \div 2, e + 1)
  ELSE <<m, e>>

\* x and y are finite and the same real number.
SameNumber(x, y) ==
  /\ x.k = "num"
  /\ y.k = "num"
  /\ Reduced(x.m, x.e) = Reduced(y.m, y.e)

\* A scale_value call has returned or panicked (and may have been reversed).
Scaled == pc # "idle" /\ op = "scale_value"
Returned(f) == pc = "returned" /\ op = f

ResolvedRangeIn == UnwrapOrRange(range_in, default_range(format_in))
ResolvedRangeOut == UnwrapOrRange(range_out, default_range(format_out))
IsInteger(f) == f.sample_type = "Integer"

\* The call is scale_value(v, F, F, Some(R), Some(R), _, _).
IdentityCall ==
  /\ Scaled
  /\ format_in = format_out
  /\ range_in \in ColorRange
  /\ range_in = range_out

\* C1: scale_value(v, F, F, Some(R), Some(R), scale_offsets, chroma) returns v
\* exactly, for every format F, range R and value v of F.
C1_IdentityAnyFormat == IdentityCall => SameNumber(result, value)

\* 0 <= x <= 2^d - 1.  For d > 24 no f32 lies strictly between 2^d - 1 and
\* 2^d, so x <= 2^d - 1 is x < 2^d.
InStorageRange(x, d) ==
  /\ x.k = "num"
  /\ x.m >= 0
  /\ IF d <= 24
       THEN F32Le(x, RoundToF32(MaxSample(d), 0))
       ELSE F32Lt(x, Num(8388608, d - 23))

\* C2: whenever the destination format is Integer, the value scale_value
\* returns lies in [0, (1 << bitDepth) - 1] of the destination format.
C2_DestinationClamping ==
  (Scaled /\ IsInteger(format_out) /\ result.k # "panic")
    => InStorageRange(result, depth(format_out))

\* The caller scaled v from A to a deeper Integer format B and back, with one
\* range R for both formats on both legs.
RoundTripDone ==
  /\ pc = "back"
  /\ IsInteger(format_in)
  /\ IsInteger(format_out)
  /\ depth(format_in) < depth(format_out)
  /\ ResolvedRangeIn = ResolvedRangeOut

\* C3: scale_value(scale_value(v, A, B, R, R), B, A, R, R) == v exactly.
C3_RoundTrip == RoundTripDone => SameNumber(back, value)

\* The chroma flag and range lowest_value / peak_value work with.
SelfChroma ==
  IF color_family(format_in) = "RGB" THEN FALSE ELSE UnwrapOrBool(chroma, FALSE)
SelfIsFloat == sample_type(format_in) = "Float"

\* x is the f32 1/2 or 1.
Half == Num(1, -1)
One == Num(1, 0)

\* x is exactly 2^d - 1.  2^32 - 1 has 32 significant bits: no f32 equals it.
IsTwoPowMinusOne(x, d) ==
  /\ d <= 31
  /\ SameNumber(x, Num(MaxSample(d), 0))

\* C4: peak_value is 0.5 (chroma) or 1.0 for Float, 2^bitDepth - 1 for Integer
\* Full and 240 * 2^(bitDepth - 8) (chroma) or 235 * 2^(bitDepth - 8) for
\* Integer Limited, for every format of 8 to 32 bits.
C4_PeakValue ==
  (Returned("peak_value") /\ depth(format_in) \in PresetDepths)
    => IF SelfIsFloat
         THEN SameNumber(result, IF SelfChroma THEN Half ELSE One)
       ELSE IF ResolvedRangeIn = "Full"
         THEN IsTwoPowMinusOne(result, depth(format_in))
       ELSE SameNumber(result, Num(IF SelfChroma THEN 240 ELSE 235,
                                   depth(format_in) - 8))

\* The value the contract of lowest_value gives for the call of this state.
LowestValueContract ==
  IF SelfIsFloat
    THEN SameNumber(result, IF SelfChroma THEN Num(-1, -1) ELSE Zero)
  ELSE IF ResolvedRangeIn = "Full"
    THEN SameNumber(result, Zero)
  ELSE SameNumber(result, Num(16, depth(format_in) - 8))

\* C5 as stated: lowest_value is -0.5 (chroma) or 0.0 for Float, 0.0 for
\* Integer Full and 16 * 2^(bitDepth - 8) for Integer Limited, a finite number,
\* for every format of bit depth >= 1.
C5_LowestValueAnyDepth == Returned("lowest_value") => LowestValueContract

\* C5 amended: the same, for every format of bit depth 8 to 32.
C5_LowestValue ==
  (Returned("lowest_value") /\ depth(format_in) \in PresetDepths)
    => LowestValueContract

\* lowest_value of a 32-bit Integer format in Limited range is 2^28.
C5_Witness ==
  /\ Returned("lowest_value")
  /\ format_in = YUV444P(32)
  /\ chroma = "true"
  /\ range_in = "None"
  /\ result = Num(8388608, 5)

\* C6: neutral_value is 0.0 for Float and 2^(bitDepth - 1) for Integer.
C6_NeutralValue ==
  Returned("neutral_value")
    => IF SelfIsFloat
         THEN SameNumber(result, Zero)
         ELSE SameNumber(result, Num(1, depth(format_in) - 1))

\* C7: for an Integer format of bit depth >= 8 and any chroma flag,
\* lowest_value(Limited) > lowest_value(Full) == 0 and
\* peak_value(Limited) < peak_value(Full).
C7_RangeMonotonicity ==
  (/\ pc = "returned"
   /\ op \in {"lowest_value", "peak_value"}
   /\ IsInteger(format_in)
   /\ depth(format_in) >= 8)
    => LET other == IF ResolvedRangeIn = "Full" THEN "Limited" ELSE "Full"
           counterpart ==
             IF op = "lowest_value"
               THEN lowest_value(build, format_in, chroma, other)
               ELSE peak_value(build, format_in, chroma, other)
           limited == IF ResolvedRangeIn = "Limited" THEN result ELSE counterpart
           full == IF ResolvedRangeIn = "Full" THEN result ELSE counterpart
       IN /\ limited.k = "num"
          /\ full.k = "num"
          /\ IF op = "lowest_value"
               THEN full = Zero /\ F32Lt(full, limited)
               ELSE F32Lt(limited, full)

\* C8: with an RGB format, lowest_value and peak_value do not depend on the
\* chroma flag; with an RGB source or destination, scale_value does not.
C8_RgbChromaSuppression ==
  /\ (Returned("lowest_value") /\ color_family(format_in) = "RGB")
       => \A c \in OptBool : result = lowest_value(build, format_in, c, range_in)
  /\ (Returned("peak_value") /\ color_family(format_in) = "RGB")
       => \A c \in OptBool : result = peak_value(build, format_in, c, range_in)
  /\ (Returned("scale_value")
      /\ "RGB" \in {color_family(format_in), color_family(format_out)})
       => \A c \in OptBool :
            result = scale_value(build, value, format_in, format_out,
                                 range_in, range_out, scale_offsets, c)

\* A Limited-range conversion from GRAY10 to RGB24 with the chroma flag set,
\* which is not the identity case: studio black 64 becomes 16.
C8_Witness ==
  /\ Returned("scale_value")
  /\ format_in = GRAY(10)
  /\ format_out = RGB24
  /\ range_in = "None"
  /\ range_out = "Limited"
  /\ scale_offsets = "None"
  /\ chroma = "true"
  /\ value = Num(64, 0)
  /\ SameNumber(result, Num(16, 0))

\* The call is scale_value(v, A, B) with default arguments, from a non-RGB
\* Integer format A of at least 8 bits to a non-RGB Integer format B that is
\* at least as deep.
DefaultWideningCall ==
  /\ Scaled
  /\ IsInteger(format_in)
  /\ IsInteger(format_out)
  /\ color_family(format_in) # "RGB"
  /\ color_family(format_out) # "RGB"
  /\ 8 <= depth(format_in)
  /\ depth(format_in) <= depth(format_out)
  /\ range_in = "None"
  /\ range_out = "None"
  /\ scale_offsets = "None"
  /\ chroma = "None"

\* C9: a default (Limited to Limited) widening conversion multiplies v by
\* 2^(depth(B) - depth(A)) exactly.
C9_PowerOfTwoScaling ==
  DefaultWideningCall
    => SameNumber(result,
                  Num(value.m, value.e + depth(format_out) - depth(format_in)))

\* The characteristic values scale_value computes for the call of this state.
EffectiveChroma == effective_chroma(format_in, format_out, chroma)
InputLowest ==
  lowest_value(build, format_in, SomeBool(EffectiveChroma), ResolvedRangeIn)
InputPeak ==
  peak_value(build, format_in, SomeBool(EffectiveChroma), ResolvedRangeIn)
OutputLowest ==
  lowest_value(build, format_out, SomeBool(EffectiveChroma), ResolvedRangeOut)
OutputPeak ==
  peak_value(build, format_out, SomeBool(EffectiveChroma), ResolvedRangeOut)

\* A scale_value call with offsets applied that is not the identity case.
OffsetCall ==
  /\ Scaled
  /\ UnwrapOrBool(scale_offsets, TRUE)
  /\ ~is_identity(format_in, format_out, range_in, range_out)

\* |x| for a finite x.
F32Abs(x) == Num(Abs(x.m), x.e)

\* The call returned y: exactly when the destination is Integer, and within
\* the rounding of the f32 arithmetic (one part in 2^23) when it is Float.
ReturnedValue(y) ==
  IF IsInteger(format_out)
    THEN SameNumber(result, y)
    ELSE /\ result.k = "num"
         /\ y.k = "num"
         /\ F32Le(F32Abs(F32Sub(result, y)), Num(Abs(y.m), y.e - 23))

\* The source's lowest value is returned as the destination's, and the
\* source's peak value as the destination's.
EndpointsMapped ==
  /\ SameNumber(value, InputLowest) => ReturnedValue(OutputLowest)
  /\ SameNumber(value, InputPeak) => ReturnedValue(OutputPeak)

\* f is Float, or Integer with sample values an f32 holds exactly.
ExactInF32(f) == IsInteger(f) => depth(f) <= 24

\* C10 as stated: with offsets applied and outside the identity case,
\* scale_value maps lowest to lowest and peak to peak, for every pair of
\* ranges and every effective chroma flag.  It is stated here for the formats
\* of at most 24 bits only, where neither the i32 overflow of peak_value nor
\* the rounding of a deep sample to f32 takes part: a violation is one of C10.
C10_EndpointMappingAnyChroma ==
  (OffsetCall /\ ExactInF32(format_in) /\ ExactInF32(format_out))
    => EndpointsMapped

\* The chroma flag is on and an Integer format is in Full range.
ChromaWithFullRange ==
  /\ EffectiveChroma
  /\ \/ IsInteger(format_in) /\ ResolvedRangeIn = "Full"
     \/ IsInteger(format_out) /\ ResolvedRangeOut = "Full"

\* C10 amended: lowest is mapped to lowest and peak to peak when the formats
\* are Float or Integer of at most 24 bits and, with the chroma flag on, no
\* Integer format is in Full range.
C10_EndpointMapping ==
  (/\ OffsetCall
   /\ ExactInF32(format_in)
   /\ ExactInF32(format_out)
   /\ ~ChromaWithFullRange)
    => EndpointsMapped

\* Full-range white 255 of GRAY8 becomes Limited-range white 235.
C10_Witness ==
  /\ Returned("scale_value")
  /\ format_in = GRAY(8)
  /\ format_out = GRAY(8)
  /\ range_in = "Full"
  /\ range_out = "Limited"
  /\ scale_offsets = "None"
  /\ chroma = "None"
  /\ value = Num(255, 0)
  /\ SameNumber(value, InputPeak)
  /\ SameNumber(result, Num(235, 0))

\* The call is scale_value(v, A, B) with default arguments, from a non-RGB
\* Integer format A of at least 8 bits to a non-RGB Float format B.
DefaultToFloatCall ==
  /\ Scaled
  /\ IsInteger(format_in)
  /\ ~IsInteger(format_out)
  /\ color_family(format_in) # "RGB"
  /\ color_family(format_out) # "RGB"
  /\ 8 <= depth(format_in)
  /\ range_in = "None"
  /\ range_out = "None"
  /\ scale_offsets = "None"
  /\ chroma = "None"

\* (v - 16 * 2^(d-8)) / (219 * 2^(d-8)) for the source value and depth of this
\* state, as the f32 nearest to the quotient of the f32 nearest to v - 16 * 2^(d-8).
StudioFraction ==
  F32Div(F32Sub(to_f32(value), RoundToF32(16, depth(format_in) - 8)),
         RoundToF32(219, depth(format_in) - 8))

\* x is y up to the rounding of f32 arithmetic: four roundings of one part in
\* 2^24 each, so one part in 2^22; zero only for zero.
NearF32(x, y) ==
  /\ x.k = "num"
  /\ y.k = "num"
  /\ F32Le(F32Abs(F32Sub(x, y)), Num(Abs(y.m), y.e - 22))

\* C11: a default conversion from a non-RGB Integer format of d >= 8 bits to a
\* non-RGB Float format returns (v - 16 * 2^(d-8)) / (219 * 2^(d-8)), neither
\* rounded to an integer nor clamped to [0, 1].
C11_IntegerToFloat == DefaultToFloatCall => NearF32(result, StudioFraction)

\* What the documentation of VapoursCore::depth promises for the host of this
\* state: a typed error naming fmtc when the plugin is missing, a frame
\* property error when a property cannot be set or read, the node otherwise.
DepthContract ==
  IF ~core.fmtc_found THEN DependencyNotFoundError("fmtc")
  ELSE IF ~(core.set_clip /\ core.set_bitdepth /\ core.get_video_node)
    THEN FramePropertyError("clip")
  ELSE Ok

\* C12: Core::depth returns Err(DependencyNotFoundError("fmtc")) when fmtconv
\* is missing, Err(FramePropertyError) when a property cannot be set or read
\* and Ok otherwise; it never panics.
C12_CoreDepthTypedResult ==
  Returned("Core::depth") => (result # Panic /\ result = DepthContract)

\* The ratio scale_value multiplies by in the call of this state (scale.rs:72).
SpanRatio ==
  F32Div(F32Sub(OutputPeak, OutputLowest), F32Sub(InputPeak, InputLowest))

\* x is a finite number above zero.
IsPositive(x) == x.k = "num" /\ x.m > 0

\* C13: for every format of the catalogue depths (Integer 8 to 32 bits, Float),
\* every range and every chroma flag, peak_value > lowest_value, so the ratio
\* (outputPeak - outputLowest) / (inputPeak - inputLowest) of scale_value is
\* defined and positive.
C13_PositiveSpan ==
  /\ (Returned("peak_value") /\ depth(format_in) \in PresetDepths)
       => IsPositive(F32Sub(result,
                            lowest_value(build, format_in, chroma, range_in)))
  /\ (Scaled /\ ~is_identity(format_in, format_out, range_in, range_out))
       => IsPositive(SpanRatio)

\* The views handed out so far, in order.
Yielded == SelectSeq(planes.returns, LAMBDA r : r # None)

Iterating == pc = "iterating"

\* C14: for PlanesIter and PlanesIterMut over a frame of n planes, under every
\* interleaving of next and next_back: start <= end <= n; every view handed out
\* is of a plane in 0..n-1; no plane is handed out twice; a None comes only
\* after exactly n views, and only None follows a None; len() is n minus the
\* number of views handed out.
C14_PlanesIterator ==
  Iterating =>
    /\ planes.start <= planes.end
    /\ planes.end <= planes.num_planes
    /\ \A i \in 1..Len(Yielded) : Yielded[i].plane \in 0..(planes.num_planes - 1)
    /\ \A i, j \in 1..Len(Yielded) : i # j => Yielded[i].plane # Yielded[j].plane
    /\ \A i \in 1..Len(planes.returns) :
         planes.returns[i] = None
           => /\ Len(SelectSeq(SubSeq(planes.returns, 1, i),
                               LAMBDA r : r # None)) = planes.num_planes
              /\ \A j \in i..Len(planes.returns) : planes.returns[j] = None
    /\ planes_len(planes) = planes.num_planes - Len(Yielded)

\* A PlanesIterMut over three planes handed out plane 0 from the front, plane
\* 2 and plane 1 from the back, and then None twice.
C14_Witness ==
  /\ Iterating
  /\ planes.kind = "PlanesIterMut"
  /\ planes.returns = <<Some(0), Some(2), Some(1), None, None>>

====
